---- MODULE Spec2Model ----
(***************************************************************************)
(* The tensor store and tool layer of scientific_computation_mcp           *)
(* (src/src/main.py; src/src/server.py is the same program with another    *)
(* port and middleware).                                                   *)
(*                                                                         *)
(* Module import runs top to bottom: the FastMCP instance and the empty    *)
(* tensor_store are created, the decorators register the core tools and    *)
(* the resource, the three domain modules register theirs, and main()      *)
(* starts the HTTP server.  After that the tools are called one at a time  *)
(* (each handler is a synchronous function that runs to completion).       *)
(*                                                                         *)
(* Python object identity.  Every ndarray the program stores is created by *)
(* one create_tensor call and bound to exactly one key of tensor_store, so *)
(* a reference to an array is either "the array bound to key n" or a       *)
(* reference to an array that has been popped or rebound since (it lives   *)
(* on only through that reference).  References are written that way:      *)
(*   [kind |-> "stored", name |-> n]     the object tensor_store[n]        *)
(*   [kind |-> "detached", arr |-> a]    an object no longer in the store  *)
(* Floats are stood for by small integers (all the values used are exact). *)
(* Names are sequences of one-character strings, so that joining them with *)
(* "\n" and splitting the result are computed, not assumed.                *)
(***************************************************************************)
EXTENDS Integers, Sequences, FiniteSets, TLC

VARIABLES pc, registry, tensor_store, ret, held

vars == <<pc, registry, tensor_store, ret, held>>

\* ------------------------------------------------------------------ bounds

\* Largest dimension a requested shape may hold (dimensions range over -1..MaxDim).
MaxDim == 2

\* Longest list of values a request may carry.
MaxLen == 4

\* ------------------------------------------------------------------ inputs

NL == "\n"

\* Tensor names a caller may send: name is an unconstrained str.
Names == { <<"a">>, <<"a", NL, "b">> }

Dims == -1..MaxDim

\* Requested shapes: lists of 0, 1 or 2 integers.
Shapes == { <<>> } \cup { <<d>> : d \in Dims } \cup { <<d, e>> : d \in Dims, e \in Dims }

\* First elements of the requested value lists.
FirstVals == { 0, 1 }

\* The list f, 2, 3, ..., k.
Ramp(f, k) == [i \in 1..k |-> IF i = 1 THEN f ELSE i]

\* Requested value lists: <<>>, <<1>>, <<0>>, <<1, 2>>, <<0, 2>>, ...
ValueLists == { Ramp(f, k) : f \in FirstVals, k \in 0..MaxLen }

\* Values an in-process holder of a reference writes into the array.
WriteVals == { 0 }

\* ------------------------------------------------------------------ numpy

RECURSIVE Prod(_)
\* np.prod(shape): the product of the entries, 1 for the empty list.  (numpy
\* multiplies in 64 bits; the dimensions here stay far below a wrap-around.)
Prod(s) == IF s = <<>> THEN 1 ELSE Head(s) * Prod(Tail(s))

RECURSIVE Indices(_)
\* The multi-indices (0-based) of an array of shape s.
Indices(s) ==
  IF s = <<>> THEN { <<>> }
  ELSE { <<i>> \o r : i \in 0..(Head(s) - 1), r \in Indices(Tail(s)) }

RECURSIVE Offset(_, _)
\* Position of multi-index idx in the flat buffer, C (row-major) order.
Offset(idx, s) ==
  IF s = <<>> THEN 0
  ELSE Head(idx) * Prod(Tail(s)) + Offset(Tail(idx), Tail(s))

RECURSIVE OffsetF(_, _)
\* Position of multi-index idx in Fortran (column-major) order.
OffsetF(idx, s) ==
  IF s = <<>> THEN 0
  ELSE Head(idx) + Head(s) * OffsetF(Tail(idx), Tail(s))

\* np.array(values): a one-dimensional array.
np_array(values) ==
  [shape |-> <<Len(values)>>,
   at |-> [idx \in Indices(<<Len(values)>>) |-> values[idx[1] + 1]]]

\* arr.flatten(): the elements in row-major order.
Flat(arr) ==
  [k \in 1..Prod(arr.shape) |->
     arr.at[CHOOSE idx \in Indices(arr.shape) : Offset(idx, arr.shape) = k - 1]]

\* Indices of the negative entries of a requested shape ("unknown" dimensions).
Unknown(s) == { i \in 1..Len(s) : s[i] < 0 }

RECURSIVE KnownProd(_)
\* Product of the non-negative entries of a requested shape.
KnownProd(s) ==
  IF s = <<>> THEN 1
  ELSE (IF Head(s) < 0 THEN 1 ELSE Head(s)) * KnownProd(Tail(s))

\* Faulty variant of ResolveShape: a negative entry is taken for its absolute value.
ResolveShapeAbs(size, s) ==
  LET t == [i \in 1..Len(s) |-> IF s[i] < 0 THEN 0 - s[i] ELSE s[i]] IN
  [ok |-> Prod(t) = size, shape |-> t]

\* The shape reshape arrives at for an array of `size` elements: at most one
\* negative entry, which is inferred; the sizes must agree.  ok = FALSE otherwise.
ResolveShape(size, s) ==
  IF Cardinality(Unknown(s)) > 1 THEN [ok |-> FALSE, shape |-> s]
  ELSE IF Cardinality(Unknown(s)) = 1
    THEN IF KnownProd(s) = 0 \/ size % KnownProd(s) # 0
           THEN [ok |-> FALSE, shape |-> s]
           ELSE [ok |-> TRUE,
                 shape |-> [i \in 1..Len(s) |->
                              IF s[i] < 0 THEN size \div KnownProd(s) ELSE s[i]]]
    ELSE [ok |-> KnownProd(s) = size, shape |-> s]

\* Faulty variant of reshape: fills the new array in column-major order.
reshape_fortran(arr, s) ==
  LET t == ResolveShape(Prod(arr.shape), s) IN
  IF ~t.ok THEN [ok |-> FALSE, arr |-> arr]
  ELSE [ok |-> TRUE,
        arr |-> [shape |-> t.shape,
                 at |-> [idx \in Indices(t.shape) |->
                           Flat(arr)[OffsetF(idx, t.shape) + 1]]]]

\* arr.reshape(s): same elements in row-major order under the new shape, or a
\* ValueError (ok = FALSE).
reshape(arr, s) ==
  LET t == ResolveShape(Prod(arr.shape), s) IN
  IF ~t.ok THEN [ok |-> FALSE, arr |-> arr]
  ELSE [ok |-> TRUE,
        arr |-> [shape |-> t.shape,
                 at |-> [idx \in Indices(t.shape) |->
                           Flat(arr)[Offset(idx, t.shape) + 1]]]]

\* v.flat[0] = x: an in-place write of the first element.
SetFirst(arr, x) ==
  IF Prod(arr.shape) = 0 THEN arr
  ELSE [arr EXCEPT !.at =
          [idx \in DOMAIN arr.at |-> IF Offset(idx, arr.shape) = 0 THEN x ELSE arr.at[idx]]]

\* ------------------------------------------------------------------ dict

\* tensor_store is a dict: a sequence of entries in insertion order, keys unique.
Keys(store) == { store[i].key : i \in 1..Len(store) }

KeyList(store) == [i \in 1..Len(store) |-> store[i].key]

Pos(store, n) == CHOOSE i \in 1..Len(store) : store[i].key = n

\* store[n]
Get(store, n) == store[Pos(store, n)].val

\* store[n] = a: rebinds in place, or appends a new key.
Put(store, n, a) ==
  IF n \in Keys(store)
    THEN [store EXCEPT ![Pos(store, n)] = [key |-> n, val |-> a]]
    ELSE Append(store, [key |-> n, val |-> a])

\* Faulty variant of Pop: store.popitem(), which removes the newest entry.
PopLast(store, n) == SubSeq(store, 1, Len(store) - 1)

\* store.pop(n)
Pop(store, n) ==
  LET p == Pos(store, n) IN
  [i \in 1..(Len(store) - 1) |-> IF i < p THEN store[i] ELSE store[i + 1]]

\* ------------------------------------------------------------------ str

RECURSIVE Join(_)
\* "\n".join(names)
Join(names) ==
  IF names = <<>> THEN <<>>
  ELSE IF Len(names) = 1 THEN Head(names)
  ELSE Head(names) \o <<NL>> \o Join(Tail(names))

\* ------------------------------------------------------------------ references

NoRef == [kind |-> "none"]

RefTo(n) == [kind |-> "stored", name |-> n]

Deref(store, r) == IF r.kind = "stored" THEN Get(store, r.name) ELSE r.arr

\* What reference r becomes when key n is popped or rebound: the object it names
\* leaves the store and lives on through r alone.
Unbind(r, store, n) ==
  IF r.kind = "stored" /\ r.name = n
    THEN [kind |-> "detached", arr |-> Get(store, n)]
    ELSE r

\* ------------------------------------------------------------------ tools

NoCall ==
  [op |-> "none", name |-> <<>>, shape |-> <<>>, values |-> <<>>,
   status |-> "none", value |-> NoRef]

Call(op, name, shape, values, status, value) ==
  [op |-> op, name |-> name, shape |-> shape, values |-> values,
   status |-> status, value |-> value]

\* Field(min_items=1) on shape and on values: the tool's argument schema.
ArgsValid(shape, values) == Len(shape) >= 1 /\ Len(values) >= 1

\* Faulty variant of SizeMatches: the length check is gone.
SizeMatchesAlways(shape, values) == TRUE

\* not (len(values) != np.prod(shape))
SizeMatches(shape, values) == Len(values) = Prod(shape)

\* Faulty variant of create_tensor: stores the array before it checks anything.
create_tensor_store_first(store, shape, values, name) ==
  LET r == reshape(np_array(values), shape) IN
  IF ~ArgsValid(shape, values)
    THEN [store |-> Put(store, name, np_array(values)), status |-> "ValidationError",
          value |-> NoRef]
  ELSE IF ~SizeMatches(shape, values)
    THEN [store |-> Put(store, name, np_array(values)), status |-> "ShapeMismatch",
          value |-> NoRef]
  ELSE IF ~r.ok
    THEN [store |-> Put(store, name, np_array(values)), status |-> "ReshapeError",
          value |-> NoRef]
  ELSE [store |-> Put(store, name, r.arr), status |-> "ok", value |-> RefTo(name)]

\* create_tensor(shape, values, name): the store it leaves and what it returns.
\*   "ValidationError"  the argument schema rejects the call (an empty list)
\*   "ShapeMismatch"    ValueError("Shape does not match number of values.")
\*   "ReshapeError"     the ValueError numpy's reshape raises
create_tensor(store, shape, values, name) ==
  LET r == reshape(np_array(values), shape) IN
  IF ~ArgsValid(shape, values)
    THEN [store |-> store, status |-> "ValidationError", value |-> NoRef]
  ELSE IF ~SizeMatches(shape, values)
    THEN [store |-> store, status |-> "ShapeMismatch", value |-> NoRef]
  ELSE IF ~r.ok
    THEN [store |-> store, status |-> "ReshapeError", value |-> NoRef]
  ELSE [store |-> Put(store, name, r.arr), status |-> "ok", value |-> RefTo(name)]

\* view_tensor(name): tensor_store[name], the stored object itself, or KeyError.
view_tensor(store, name) ==
  IF name \in Keys(store)
    THEN [status |-> "ok", value |-> RefTo(name)]
    ELSE [status |-> "KeyError", value |-> NoRef]

\* list_tensor_names(): "\n".join(tensor_store.keys())
list_tensor_names(store) == Join(KeyList(store))

\* Faulty variant of delete_tensor: reports success and removes nothing.
delete_tensor_keep(store, name) ==
  IF name \notin Keys(store)
    THEN [store |-> store, status |-> "NotFound"]
    ELSE [store |-> store, status |-> "ok"]

\* delete_tensor(name): pops the key, or
\* ValueError("One or both tensor names not found in the store.") ("NotFound").
delete_tensor(store, name) ==
  IF name \notin Keys(store)
    THEN [store |-> store, status |-> "NotFound"]
    ELSE [store |-> Pop(store, name), status |-> "ok"]

\* ------------------------------------------------------------------ startup

CoreTools == { "create_tensor", "view_tensor", "delete_tensor" }

CoreResources == { "data://tensor_store" }

\* The tools each domain module registers (their names stand for the module's set).
ModuleTools(m) == { m \o ".tools" }

Modules == <<"linear_algebra", "vector_calculus", "visualization">>

AllTools == CoreTools \cup UNION { ModuleTools(Modules[i]) : i \in 1..Len(Modules) }

\* Faulty variant of NextStep: main() runs before visualization.register_tools.
NextStepEarlyMain(p) ==
  IF p = "decorate" THEN "linear_algebra"
  ELSE IF p = "linear_algebra" THEN "vector_calculus"
  ELSE IF p = "vector_calculus" THEN "main"
  ELSE IF p = "visualization" THEN "main"
  ELSE "serving"

\* The statement that follows statement p of the module, top to bottom.
NextStep(p) ==
  IF p = "decorate" THEN "linear_algebra"
  ELSE IF p = "linear_algebra" THEN "vector_calculus"
  ELSE IF p = "vector_calculus" THEN "visualization"
  ELSE IF p = "visualization" THEN "main"
  ELSE "serving"

Init ==
  /\ pc = "decorate"
  /\ registry = [tools |-> {}, resources |-> {}]
  /\ tensor_store = <<>>
  /\ ret = NoCall
  /\ held = NoRef

\* @mcp.tool() on create_tensor, view_tensor, delete_tensor and @mcp.resource on
\* list_tensor_names, as the module body is executed.
Decorate ==
  /\ pc = "decorate"
  /\ registry' = [tools |-> registry.tools \cup CoreTools,
                  resources |-> registry.resources \cup CoreResources]
  /\ pc' = NextStep(pc)
  /\ UNCHANGED <<tensor_store, ret, held>>

\* linear_algebra / vector_calculus / visualization .register_tools(mcp, ...)
RegisterModule ==
  /\ \E i \in 1..Len(Modules) :
       /\ pc = Modules[i]
       /\ registry' = [registry EXCEPT !.tools = @ \cup ModuleTools(Modules[i])]
  /\ pc' = NextStep(pc)
  /\ UNCHANGED <<tensor_store, ret, held>>

\* main(): builds the app and runs uvicorn; requests are served from here on.
StartServer ==
  /\ pc = "main"
  /\ pc' = NextStep(pc)
  /\ UNCHANGED <<registry, tensor_store, ret, held>>

\* A request can be dispatched once the server runs and no handler is running.
Ready(tool) == pc = "serving" /\ ret = NoCall /\ tool \in registry.tools

\* ------------------------------------------------------------------ calls

CreateTensor ==
  /\ Ready("create_tensor")
  /\ \E shape \in Shapes, values \in ValueLists, name \in Names :
       LET o == create_tensor(tensor_store, shape, values, name) IN
       /\ tensor_store' = o.store
       /\ ret' = Call("create_tensor", name, shape, values, o.status, o.value)
       /\ held' = IF o.status = "ok" THEN Unbind(held, tensor_store, name) ELSE held
  /\ UNCHANGED <<pc, registry>>

ViewTensor ==
  /\ Ready("view_tensor")
  /\ \E name \in Names :
       LET o == view_tensor(tensor_store, name) IN
       ret' = Call("view_tensor", name, <<>>, <<>>, o.status, o.value)
  /\ UNCHANGED <<pc, registry, tensor_store, held>>

ListTensorNames ==
  /\ pc = "serving" /\ ret = NoCall /\ "data://tensor_store" \in registry.resources
  /\ ret' = Call("list_tensor_names", <<>>, <<>>, <<>>, "ok",
                 [kind |-> "str", str |-> list_tensor_names(tensor_store)])
  /\ UNCHANGED <<pc, registry, tensor_store, held>>

DeleteTensor ==
  /\ Ready("delete_tensor")
  /\ \E name \in Names :
       LET o == delete_tensor(tensor_store, name) IN
       /\ tensor_store' = o.store
       /\ ret' = Call("delete_tensor", name, <<>>, <<>>, o.status, NoRef)
       /\ held' = IF o.status = "ok" THEN Unbind(held, tensor_store, name) ELSE held
  /\ UNCHANGED <<pc, registry>>

\* The handler's result (or error) has gone back to the caller.
Return ==
  /\ ret # NoCall
  /\ ret' = NoCall
  /\ UNCHANGED <<pc, registry, tensor_store, held>>

\* An in-process caller keeps the object a successful create_tensor or
\* view_tensor returned.
CallerKeep ==
  /\ ret.value.kind = "stored"
  /\ held' = ret.value
  /\ ret' = NoCall
  /\ UNCHANGED <<pc, registry, tensor_store>>

\* The holder writes into the array it holds.
CallerWrite ==
  /\ ret = NoCall
  /\ held # NoRef
  /\ \E x \in WriteVals :
       IF held.kind = "stored"
         THEN /\ tensor_store' =
                   Put(tensor_store, held.name, SetFirst(Get(tensor_store, held.name), x))
              /\ held' = held
         ELSE /\ held' = [held EXCEPT !.arr = SetFirst(held.arr, x)]
              /\ tensor_store' = tensor_store
  /\ UNCHANGED <<pc, registry, ret>>

Next ==
  \/ Decorate
  \/ RegisterModule
  \/ StartServer
  \/ CreateTensor
  \/ ViewTensor
  \/ ListTensorNames
  \/ DeleteTensor
  \/ Return

\* The server and its remote callers.
Spec == Init /\ [][Next]_vars

NextCaller == Next \/ CallerKeep \/ CallerWrite

\* The server with a caller in the same process, which holds what the tools return.
SpecCaller == Init /\ [][NextCaller]_vars

\* ------------------------------------------------------------------ properties

\* A shape the data model allows: non-empty, every dimension positive.
Positive(shape) == Len(shape) >= 1 /\ \A i \in 1..Len(shape) : shape[i] > 0

\* What the store holds under name n: <<array>>, or <<>> when n is absent.
Stored(store, n) == IF n \in Keys(store) THEN <<Get(store, n)>> ELSE <<>>

RECURSIVE SplitNL(_, _)
SplitNL(s, cur) ==
  IF s = <<>> THEN <<cur>>
  ELSE IF Head(s) = NL THEN <<cur>> \o SplitNL(Tail(s), <<>>)
  ELSE SplitNL(Tail(s), Append(cur, Head(s)))

\* The names a caller reads off the listing: the lines of the string (no line
\* for the empty string).
Split(s) == IF s = <<>> THEN <<>> ELSE SplitNL(s, <<>>)

\* This step is a call of tool op; ret' holds its arguments and its outcome.
Called(op) == ret = NoCall /\ ret'.op = op

\* C1: when create_tensor was called with a non-empty shape of positive
\* dimensions and as many values as the product of the shape, it succeeded, and
\* view_tensor on the same name, run on the store as the call left it, returns a
\* tensor of exactly that shape whose row-major flattening is exactly those
\* values, whatever the store held before.
C1_CreateThenView ==
  (ret.op = "create_tensor" /\ Positive(ret.shape) /\ Len(ret.values) = Prod(ret.shape)) =>
    /\ ret.status = "ok"
    /\ LET v == view_tensor(tensor_store, ret.name) IN
       /\ v.status = "ok"
       /\ Deref(tensor_store, v.value).shape = ret.shape
       /\ Flat(Deref(tensor_store, v.value)) = ret.values

\* A 2x2 tensor has been created in a store that holds another tensor too.
C1_Witness ==
  /\ ret.op = "create_tensor" /\ ret.status = "ok"
  /\ ret.shape = <<2, 2>> /\ ret.values = <<1, 2, 3, 4>>
  /\ Len(tensor_store) = 2

C3_DeleteThenNotFound ==
  [][/\ (Called("delete_tensor") /\ ret'.name \notin Keys(tensor_store)) =>
          (ret'.status = "NotFound" /\ tensor_store' = tensor_store)
     /\ (Called("delete_tensor") /\ ret'.name \in Keys(tensor_store)) =>
          /\ ret'.status = "ok"
          /\ ret'.name \notin Keys(tensor_store')
          /\ view_tensor(tensor_store', ret'.name).status = "KeyError"
     /\ \A n \in Names :
          (n \notin Keys(tensor_store) /\ ~(Called("create_tensor") /\ ret'.name = n)) =>
            n \notin Keys(tensor_store')
     /\ (Called("view_tensor") /\ ret'.name \notin Keys(tensor_store)) =>
          ret'.status = "KeyError"]_vars

\* A stored tensor has been deleted while another one stays in the store.
C3_Witness ==
  /\ ret.op = "delete_tensor" /\ ret.status = "ok"
  /\ ret.name \notin Keys(tensor_store)
  /\ Len(tensor_store) = 1

\* C4 as stated: the names read off the string list_tensor_names returns are
\* exactly the keys of the store, each one once.
C4_ListingIsKeySet ==
  (ret.op = "list_tensor_names") =>
    LET names == Split(ret.value.str) IN
    /\ { names[i] : i \in 1..Len(names) } = Keys(tensor_store)
    /\ Len(names) = Cardinality(Keys(tensor_store))

C6_CopyOut ==
  [][/\ (ret = NoCall /\ ret' = NoCall) => tensor_store' = tensor_store
     /\ ((Called("delete_tensor") \/ Called("create_tensor")) /\ held # NoRef) =>
          /\ held' # NoRef
          /\ Deref(tensor_store', held') = Deref(tensor_store, held)]_vars

C9_Frame ==
  [][/\ ret' = NoCall => tensor_store' = tensor_store
     /\ (ret = NoCall /\ ret' # NoCall) =>
          /\ \A n \in Names :
               n # ret'.name => Stored(tensor_store', n) = Stored(tensor_store, n)
          /\ (ret'.status # "ok" \/ ret'.op \in {"view_tensor", "list_tensor_names"}) =>
               tensor_store' = tensor_store
          /\ (ret'.op = "create_tensor" /\ ret'.status = "ok") =>
               ret'.name \in Keys(tensor_store')
          /\ (ret'.op = "delete_tensor" /\ ret'.status = "ok") =>
               ret'.name \notin Keys(tensor_store')]_vars

\* The older of two stored tensors has been deleted; the newer one is left.
C9_Witness ==
  /\ ret.op = "delete_tensor" /\ ret.status = "ok"
  /\ ret.name = <<"a">>
  /\ Keys(tensor_store) = { <<"a", NL, "b">> }

\* C10: when the server starts serving, the core tools and the tools of the
\* three modules are all registered; a tool is called only while it serves;
\* once it serves the registered tools never change; and before that each
\* registration step only adds tools and is never run again.
C10_RegisteredBeforeServing ==
  [][/\ pc' = "serving" =>
          (registry'.tools = AllTools /\ registry'.resources = CoreResources)
     /\ ret' # NoCall => pc' = "serving"
     /\ pc = "serving" => (pc' = "serving" /\ registry' = registry)
     /\ registry' # registry =>
          /\ pc' # pc
          /\ registry.tools \subseteq registry'.tools
          /\ (registry'.tools \ registry.tools) \cap registry.tools = {}]_vars

\* A tool call is being served, with every tool registered.
C10_Witness ==
  /\ pc = "serving"
  /\ ret.op = "view_tensor" /\ ret.status = "ok"
  /\ registry.tools = AllTools

====
